---- MODULE Spec2Model ----
(***************************************************************************)
(* Model of rust_linalg's Matrix<T> (src/src/lib.rs) with T an integer     *)
(* type, and of programs shaped like src/src/main.rs: build a receiver     *)
(* matrix and a right-hand operand, then chain operations on the receiver. *)
(* A panic ends the program; it is recorded as a failed result that        *)
(* carries the kind of the panic.                                          *)
(*                                                                         *)
(* Vec indices are 0-based in the source and 1-based here: data[i] of the  *)
(* source is data[i + 1] of the model.                                     *)
(***************************************************************************)
EXTENDS Integers, Sequences, FiniteSets, TLC

\* Largest row count and row length of the inputs handed to constructors.
MaxDim == 2

\* Longest chain of operations applied to the receiver.
MaxOps == 2

\* Scalars handed to dot_scalar (main.rs uses 2).
Scalars == {-1, 2}

\* Fill patterns of the non-constant constructor inputs.
Fills == {"pos", "neg"}

\* a, b: the receiver and the right operand; ret, call: the result and the
\* arguments of the last call; trace: the operations applied to a so far;
\* lit[1], lit[2]: whether a, b were written as struct literals.
VARIABLES a, b, ret, call, trace, pc, lit

vars == <<a, b, ret, call, trace, pc, lit>>

----------------------------------------------------------------------------
(* Values *)

Matrix(r, c, d) == [rows |-> r, cols |-> c, data |-> d]

\* A function that returns.
Ok(v) == [ok |-> TRUE, val |-> v, err |-> "none"]

\* A function that panics: "DimensionMismatch", "IncompatibleDimensions" and
\* "IndexOutOfRange" are the panic! calls of lib.rs, "IndexOutOfBounds" is
\* the panic of Rust's own Vec indexing.
Panic(e) == [ok |-> FALSE, val |-> <<>>, err |-> e]

Min(x, y) == IF x < y THEN x ELSE y

----------------------------------------------------------------------------
(* Matrix<T> *)

\* new with the two dimensions taken from the wrong places.
new_swapped(rows) ==
    IF \E i \in 1..Len(rows) : Len(rows[i]) # Len(rows[1])
    THEN Panic("DimensionMismatch")
    ELSE IF Len(rows) = 0
         THEN Panic("IndexOutOfBounds")
         ELSE Ok(Matrix(Len(rows[1]), Len(rows), rows))

new(rows) ==
    IF \E i \in 1..Len(rows) : Len(rows[i]) # Len(rows[1])
    THEN Panic("DimensionMismatch")
    ELSE IF Len(rows) = 0
         THEN Panic("IndexOutOfBounds")
         ELSE Ok(Matrix(Len(rows), Len(rows[1]), rows))

\* check_valid_dims without the comparison of the row lengths to self.cols.
check_valid_dims_no_cols(self) ==
    IF \/ \E i \in 1..Len(self.data) : Len(self.data[i]) # Len(self.data[1])
       \/ Len(self.data) # self.rows
    THEN Panic("DimensionMismatch")
    ELSE Ok(<<>>)

check_valid_dims(self) ==
    IF \/ \E i \in 1..Len(self.data) : Len(self.data[i]) # Len(self.data[1])
       \/ Len(self.data) # self.rows
       \/ \E i \in 1..Len(self.data) : Len(self.data[i]) # self.cols
    THEN Panic("DimensionMismatch")
    ELSE Ok(<<>>)

check_same_dims(self, rhs) ==
    IF ~check_valid_dims(self).ok THEN check_valid_dims(self)
    ELSE IF ~check_valid_dims(rhs).ok THEN check_valid_dims(rhs)
    ELSE IF self.rows # rhs.rows \/ self.cols # rhs.cols
         THEN Panic("DimensionMismatch")
         ELSE Ok(<<>>)

zeros(n, p) == new([i \in 1..n |-> [j \in 1..p |-> 0]])

ones(n, p) == new([i \in 1..n |-> [j \in 1..p |-> 1]])

row(self, i) ==
    IF i >= self.rows THEN Panic("IndexOutOfRange")
    ELSE IF i >= Len(self.data) THEN Panic("IndexOutOfBounds")
    ELSE Ok(self.data[i + 1])

col(self, i) ==
    IF i >= self.cols THEN Panic("IndexOutOfRange")
    ELSE IF \E r \in 1..Len(self.data) : i >= Len(self.data[r])
         THEN Panic("IndexOutOfBounds")
         ELSE Ok([r \in 1..Len(self.data) |-> self.data[r][i + 1]])

\* x.iter().zip(y).map(|(a, b)| a * b): zip stops at the shorter of the two.
zip_mul(x, y) == [k \in 1..Min(Len(x), Len(y)) |-> x[k] * y[k]]

\* Iterator::sum, in increasing index order.
RECURSIVE sum(_)
sum(s) == IF s = <<>> THEN 0 ELSE Head(s) + sum(Tail(s))

\* The value assigned to res.data[n][p] in the loop body of dot.
dot_cell(self, rhs, n, p) ==
    LET r == row(self, n)
        c == col(rhs, p)
    IN  IF ~r.ok THEN r
        ELSE IF ~c.ok THEN c
        ELSE Ok(sum(zip_mul(r.val, c.val)))

\* dot whose inner loop runs over 0..self.cols instead of 0..rhs.cols.
dot_wrong_range(self, rhs) ==
    IF self.cols # rhs.rows THEN Panic("IncompatibleDimensions")
    ELSE
      LET res == ones(self.rows, rhs.cols)
      IN  IF ~res.ok THEN res
          ELSE
            LET cells == [n \in 0..(self.rows - 1), p \in 0..(self.cols - 1)
                             |-> dot_cell(self, rhs, n, p)]
                failed == {np \in DOMAIN cells : ~cells[np].ok}
                first  == CHOOSE f \in failed : \A g \in failed :
                              \/ f[1] < g[1]
                              \/ f[1] = g[1] /\ f[2] <= g[2]
            IN  IF failed # {} THEN cells[first]
                ELSE Ok([res.val EXCEPT !.data =
                        [n \in 1..Len(res.val.data) |->
                          [p \in 1..Len(res.val.data[n]) |->
                            IF <<n - 1, p - 1>> \in DOMAIN cells
                            THEN cells[n - 1, p - 1].val
                            ELSE res.val.data[n][p]]]])

dot(self, rhs) ==
    IF self.cols # rhs.rows THEN Panic("IncompatibleDimensions")
    ELSE
      LET res == ones(self.rows, rhs.cols)
      IN  IF ~res.ok THEN res
          ELSE
            LET cells == [n \in 0..(self.rows - 1), p \in 0..(rhs.cols - 1)
                             |-> dot_cell(self, rhs, n, p)]
                failed == {np \in DOMAIN cells : ~cells[np].ok}
                first  == CHOOSE f \in failed : \A g \in failed :
                              \/ f[1] < g[1]
                              \/ f[1] = g[1] /\ f[2] <= g[2]
            IN  IF failed # {} THEN cells[first]
                ELSE Ok([res.val EXCEPT !.data =
                        [n \in 1..Len(res.val.data) |->
                          [p \in 1..Len(res.val.data[n]) |->
                            IF <<n - 1, p - 1>> \in DOMAIN cells
                            THEN cells[n - 1, p - 1].val
                            ELSE res.val.data[n][p]]]])

\* dot_scalar that adds the scalar instead of multiplying by it.
dot_scalar_adds(self, k) ==
    Ok([self EXCEPT !.data =
          [i \in 1..Len(self.data) |->
            [j \in 1..Len(self.data[i]) |-> k + self.data[i][j]]]])

dot_scalar(self, k) ==
    Ok([self EXCEPT !.data =
          [i \in 1..Len(self.data) |->
            [j \in 1..Len(self.data[i]) |-> k * self.data[i][j]]]])

transpose(self) ==
    IF ~check_valid_dims(self).ok THEN check_valid_dims(self)
    ELSE
      LET cols == [i \in 1..self.cols |-> col(self, i - 1)]
      IN  IF \E i \in 1..self.cols : ~cols[i].ok
          THEN cols[CHOOSE i \in 1..self.cols :
                      ~cols[i].ok /\ \A j \in 1..(i - 1) : cols[j].ok]
          ELSE new([i \in 1..self.cols |-> cols[i].val])

plus(x, y) == x + y

\* The subtraction with its operands exchanged.
minus_swapped(x, y) == y - x

minus(x, y) == x - y

\* self.data.into_iter().zip(rhs.data).map(|(a, b)| a.zip(b).map(+)): each
\* zip stops at the shorter of the two.
zip_add(x, y) ==
    [i \in 1..Min(Len(x), Len(y)) |->
      [j \in 1..Min(Len(x[i]), Len(y[i])) |-> plus(x[i][j], y[i][j])]]

zip_sub(x, y) ==
    [i \in 1..Min(Len(x), Len(y)) |->
      [j \in 1..Min(Len(x[i]), Len(y[i])) |-> minus(x[i][j], y[i][j])]]

add(self, rhs) ==
    IF ~check_same_dims(self, rhs).ok THEN check_same_dims(self, rhs)
    ELSE new(zip_add(self.data, rhs.data))

sub(self, rhs) ==
    IF ~check_same_dims(self, rhs).ok THEN check_same_dims(self, rhs)
    ELSE new(zip_sub(self.data, rhs.data))

----------------------------------------------------------------------------
(* Inputs *)

\* Element (i, j), 1-based, of a constructor input.
Fill(f, i, j) ==
    IF f = "pos" THEN (i - 1) * (MaxDim + 1) + j ELSE j - 2 * i

\* The row lengths of a Vec<Vec<T>> of n rows of up to MaxDim elements
\* each, ragged ones included.
RowLens(n) == [1..n -> 0..MaxDim]

RowsInput(lens, f) ==
    [i \in 1..Len(lens) |-> [j \in 1..lens[i] |-> Fill(f, i, j)]]

\* Number of places where a Matrix value's fields disagree with its data.
Faults(m) ==
    (IF Len(m.data) # m.rows THEN 1 ELSE 0)
    + Cardinality({i \in 1..Len(m.data) : Len(m.data[i]) # m.cols})

\* Matrix { rows, cols, data } written as a struct literal (the fields are
\* pub): the well-formed values and those with one disagreement.
IsLiteral(m) == Faults(m) <= 1

----------------------------------------------------------------------------
(* Programs *)

\* The last call: its name, receiver, right operand and arguments.
Call(op, self, rhs, rows, n, p, k) ==
    [rows |-> rows, self |-> self, rhs |-> rhs,
     n |-> n, p |-> p, k |-> k, op |-> op]

NoMatrix == Matrix(0, 0, <<>>)

Init ==
    /\ a = NoMatrix
    /\ b = NoMatrix
    /\ ret = Ok(NoMatrix)
    /\ call = Call("none", NoMatrix, NoMatrix, <<>>, 0, 0, 0)
    /\ trace = <<>>
    /\ pc = "self"
    /\ lit = <<FALSE, FALSE>>

\* An operand is still to be built.
Building == pc = "self" \/ pc = "rhs"

\* let m = <constructor call>;  first the receiver, then the right operand.
Bind(r, c, isLit) ==
    /\ ret' = r
    /\ call' = c
    /\ trace' = trace
    /\ IF ~r.ok
       THEN pc' = "panicked" /\ UNCHANGED <<a, b, lit>>
       ELSE IF pc = "self"
            THEN /\ a' = r.val
                 /\ pc' = "rhs"
                 /\ lit' = <<isLit, lit[2]>>
                 /\ b' = b
            ELSE /\ b' = r.val
                 /\ pc' = "ops"
                 /\ lit' = <<lit[1], isLit>>
                 /\ a' = a

New ==
    /\ Building
    /\ \E n \in 0..MaxDim : \E lens \in RowLens(n), f \in Fills :
        Bind(new(RowsInput(lens, f)),
             Call("new", NoMatrix, NoMatrix, RowsInput(lens, f), 0, 0, 0), FALSE)

Zeros ==
    /\ Building
    /\ \E n \in 0..MaxDim, p \in 0..MaxDim :
        Bind(zeros(n, p), Call("zeros", NoMatrix, NoMatrix, <<>>, n, p, 0), FALSE)

Ones ==
    /\ Building
    /\ \E n \in 0..MaxDim, p \in 0..MaxDim :
        Bind(ones(n, p), Call("ones", NoMatrix, NoMatrix, <<>>, n, p, 0), FALSE)

Literal ==
    /\ Building
    /\ \E r \in 0..MaxDim, c \in 0..MaxDim, n \in 0..MaxDim :
        \E lens \in RowLens(n), f \in Fills :
            LET m == Matrix(r, c, RowsInput(lens, f))
            IN  /\ IsLiteral(m)
                /\ Bind(Ok(m), Call("literal", NoMatrix, NoMatrix, m.data, r, c, 0), TRUE)

\* The receiver of the next call of the chain: a, or the last result.
Receiver == IF trace = <<>> THEN a ELSE ret.val

Apply(op, r, k) ==
    /\ pc = "ops"
    /\ Len(trace) < MaxOps
    /\ ret' = r
    /\ call' = Call(op, Receiver, b, <<>>, 0, 0, k)
    /\ trace' = Append(trace, op)
    /\ pc' = IF r.ok THEN "ops" ELSE "panicked"
    /\ UNCHANGED <<a, b, lit>>

Add == Apply("add", add(Receiver, b), 0)

Sub == Apply("sub", sub(Receiver, b), 0)

Dot == Apply("dot", dot(Receiver, b), 0)

DotScalar == \E k \in Scalars : Apply("dot_scalar", dot_scalar(Receiver, k), k)

Transpose == Apply("transpose", transpose(Receiver), 0)

Next ==
    \/ New
    \/ Zeros
    \/ Ones
    \/ Literal
    \/ Add
    \/ Sub
    \/ Dot
    \/ DotScalar
    \/ Transpose

Spec == Init /\ [][Next]_vars

----------------------------------------------------------------------------
(* Properties *)

\* Invariants 1 and 2 of the data model: data has exactly rows entries and
\* every entry has exactly cols elements.
WellFormed(m) ==
    /\ Len(m.data) = m.rows
    /\ \A i \in 1..Len(m.data) : Len(m.data[i]) = m.cols

\* A well-formed matrix with at least one row.
Valid(m) == WellFormed(m) /\ m.rows >= 1

\* sum over k in 1..kmax of A[n][k] * B[k][p], read off the operands' data.
RECURSIVE InnerProduct(_, _, _, _, _)
InnerProduct(A, B, n, p, kmax) ==
    IF kmax = 0 THEN 0
    ELSE InnerProduct(A, B, n, p, kmax - 1) + A.data[n][kmax] * B.data[kmax][p]

\* C1: for operands built by new/zeros/ones, dot panics exactly when
\* self.cols # rhs.rows, and then with IncompatibleDimensions; otherwise it
\* returns a self.rows x rhs.cols matrix whose entry (n, p) is the sum over k
\* of self[n][k] * rhs[k][p].
C1_DotIsMatrixProduct ==
    (call.op = "dot" /\ ~lit[1] /\ ~lit[2]) =>
        /\ (~ret.ok) <=> (call.self.cols # call.rhs.rows)
        /\ ~ret.ok => ret.err = "IncompatibleDimensions"
        /\ ret.ok =>
            /\ ret.val.rows = call.self.rows
            /\ ret.val.cols = call.rhs.cols
            /\ Len(ret.val.data) = call.self.rows
            /\ \A n \in 1..call.self.rows :
                /\ Len(ret.val.data[n]) = call.rhs.cols
                /\ \A p \in 1..call.rhs.cols :
                    ret.val.data[n][p] =
                        InnerProduct(call.self, call.rhs, n, p, call.self.cols)

\* A 2x2 product of API-built operands over an inner dimension of 2, with a
\* non-constant receiver and an entry that is neither 0 nor 1.
C1_Witness ==
    /\ call.op = "dot"
    /\ ~lit[1]
    /\ ~lit[2]
    /\ ret.ok
    /\ call.self.rows = 2
    /\ call.self.cols = 2
    /\ call.rhs.cols = 2
    /\ call.self.data[1][1] # call.self.data[1][2]
    /\ call.rhs.data[1][2] # call.rhs.data[2][1]
    /\ ret.val.data[2][1] # 0
    /\ ret.val.data[2][1] # 1

\* C2 (as claimed): transpose of every valid matrix, cols = 0 included,
\* returns the cols x rows matrix whose row i is column i of the receiver.
C2_TransposeOfValid ==
    (call.op = "transpose" /\ Valid(call.self)) =>
        /\ ret.ok
        /\ ret.val.rows = call.self.cols
        /\ ret.val.cols = call.self.rows
        /\ Len(ret.val.data) = call.self.cols
        /\ \A i \in 1..call.self.cols :
            ret.val.data[i] = [r \in 1..call.self.rows |-> call.self.data[r][i]]

\* C3 (as claimed): transposing a valid matrix twice succeeds and gives the
\* matrix back.
C3_TransposeInvolution ==
    (/\ Valid(a)
     /\ trace # <<>>
     /\ Len(trace) <= 2
     /\ \A i \in 1..Len(trace) : trace[i] = "transpose") =>
        /\ ret.ok
        /\ Len(trace) = 2 => ret.val = a

\* C4 (as claimed): zeros(n, p) and ones(n, p) return the n x p matrix of
\* zeros / ones for all n >= 0 and p >= 0.
C4_ZerosOnes ==
    (call.op = "zeros" \/ call.op = "ones") =>
        /\ ret.ok
        /\ ret.val.rows = call.n
        /\ ret.val.cols = call.p
        /\ Len(ret.val.data) = call.n
        /\ \A i \in 1..call.n :
            ret.val.data[i] =
                [j \in 1..call.p |-> IF call.op = "zeros" THEN 0 ELSE 1]

\* C5: on a non-empty input, new panics with DimensionMismatch exactly when
\* some row's length differs from the first row's; otherwise the result has
\* rows = R.len(), cols = R[0].len() and the elements of R.
C5_New ==
    (call.op = "new" /\ Len(call.rows) > 0) =>
        LET R == call.rows
            ragged == \E i \in 1..Len(R) : Len(R[i]) # Len(R[1])
        IN  /\ ragged => ~ret.ok /\ ret.err = "DimensionMismatch"
            /\ ~ragged =>
                /\ ret.ok
                /\ ret.val.rows = Len(R)
                /\ ret.val.cols = Len(R[1])
                /\ Len(ret.val.data) = Len(R)
                /\ \A i \in 1..Len(R) :
                    /\ Len(ret.val.data[i]) = Len(R[i])
                    /\ \A j \in 1..Len(R[i]) : ret.val.data[i][j] = R[i][j]

\* new has returned a 2x2 matrix with distinct elements.
C5_Witness ==
    /\ call.op = "new"
    /\ ret.ok
    /\ Len(call.rows) = 2
    /\ Len(call.rows[1]) = 2
    /\ call.rows[1][2] # call.rows[2][1]
    /\ pc = "ops"

\* C6: for valid a and b of the same shape, a + b succeeds and (a + b) - b
\* succeeds and is a again: same rows, same cols, same elements.
C6_AddThenSub ==
    (Valid(a) /\ Valid(b) /\ a.rows = b.rows /\ a.cols = b.cols) =>
        /\ trace = <<"add">> => ret.ok
        /\ trace = <<"add", "sub">> =>
            /\ ret.ok
            /\ ret.val.rows = a.rows
            /\ ret.val.cols = a.cols
            /\ Len(ret.val.data) = a.rows
            /\ \A i \in 1..a.rows :
                /\ Len(ret.val.data[i]) = a.cols
                /\ \A j \in 1..a.cols : ret.val.data[i][j] = a.data[i][j]

\* (a + b) - b has been computed for 2x2 operands with b non-zero.
C6_Witness ==
    /\ trace = <<"add", "sub">>
    /\ ret.ok
    /\ a.rows = 2
    /\ a.cols = 2
    /\ b.data[1][1] # 0
    /\ b.data[2][2] # b.data[1][1]

\* C7: add and sub panic with DimensionMismatch whenever the operands'
\* recorded shapes differ or either operand's data disagrees with its own
\* rows/cols.
C7_AddSubRejectMismatch ==
    (/\ (call.op = "add" \/ call.op = "sub")
     /\ \/ call.self.rows # call.rhs.rows
        \/ call.self.cols # call.rhs.cols
        \/ ~WellFormed(call.self)
        \/ ~WellFormed(call.rhs)) =>
        /\ ~ret.ok
        /\ ret.err = "DimensionMismatch"

\* sub was called with operands of equal recorded shape, a well-formed
\* receiver and a right operand with a short row, and it panicked.
C7_Witness ==
    /\ call.op = "sub"
    /\ call.self.rows = call.rhs.rows
    /\ call.self.cols = call.rhs.cols
    /\ call.self.cols = 2
    /\ WellFormed(call.self)
    /\ Len(call.rhs.data) = call.rhs.rows
    /\ \E i \in 1..Len(call.rhs.data) : Len(call.rhs.data[i]) < call.rhs.cols
    /\ pc = "panicked"

\* C8: dot_scalar(k) on a valid matrix returns a matrix of the same shape
\* whose entry (i, j) is k * self[i][j], and leaves the receiver as it was.
C8_DotScalar ==
    (call.op = "dot_scalar" /\ Valid(call.self)) =>
        /\ ret.ok
        /\ ret.val.rows = call.self.rows
        /\ ret.val.cols = call.self.cols
        /\ Len(ret.val.data) = call.self.rows
        /\ \A i \in 1..call.self.rows :
            /\ Len(ret.val.data[i]) = call.self.cols
            /\ \A j \in 1..call.self.cols :
                ret.val.data[i][j] = call.k * call.self.data[i][j]
        /\ Len(trace) = 1 => a = call.self

\* A valid 2x2 matrix with a non-zero element has been scaled by 2.
C8_Witness ==
    /\ call.op = "dot_scalar"
    /\ call.k = 2
    /\ Valid(call.self)
    /\ call.self.rows = 2
    /\ call.self.cols = 2
    /\ call.self.data[1][2] # 0
    /\ ret.ok

\* C9 (as claimed): whatever the operands, every operation that returns
\* returns a matrix whose data has rows entries of cols elements each.
C9_ResultsWellFormed ==
    (/\ call.op # "none"
     /\ call.op # "literal"
     /\ ret.ok) =>
        WellFormed(ret.val)

\* C10 (as claimed): dot panics whenever a row of self and a column of rhs
\* that it pairs up have different lengths.
C10_DotNeverTruncates ==
    (/\ call.op = "dot"
     /\ call.self.cols = call.rhs.rows
     /\ \E n \in 1..call.self.rows, p \in 1..call.rhs.cols :
            /\ n <= Len(call.self.data)
            /\ Len(call.self.data[n]) # Len(call.rhs.data)) =>
        ~ret.ok

====
